---- MODULE Spec2Model ----
(***************************************************************************)
(* Model of internal/modules/clusterscoped/utils.go of capsule-proxy:      *)
(* matchPattern (wildcard matcher), matchResource (rule matcher) and       *)
(* GetClusterScopeRequirements (aggregation over the tenants' rules).      *)
(*                                                                         *)
(* Go strings are modelled as sequences of one-character strings, so that  *)
(* splitting, slicing and searching are computed as the code computes      *)
(* them.  The specifications of the module:                               *)
(*   SpecPattern     - one call of matchPattern, one action per loop step; *)
(*   SpecPatternFair - the same, the call's steps being taken;             *)
(*   SpecResource    - one call of matchResource;                          *)
(*   Spec            - one call of GetClusterScopeRequirements.            *)
(***************************************************************************)
EXTENDS Integers, Sequences, FiniteSets

VARIABLES pattern, value, frame, gvk, cr, matched, proxyTenants, out

vars == <<pattern, value, frame, gvk, cr, matched, proxyTenants, out>>

\* ------------------------------------------------------------------ bounds

MaxPatLen == 4
MaxValLen == 4
MaxKinds == 2
MaxGroups == 2
MaxRules == 2
MaxTenants == 2

\* ----------------------------------------------------------------- strings

STAR == "*"
SLASH == "/"

SeqsUpTo(S, n) == UNION {[1..k -> S] : k \in 0..n}

\* value[idx:]
Slice(s, idx) == SubSeq(s, idx + 1, Len(s))

\* strings.Contains(s, c) for a one-character c
Contains(s, c) == \E i \in 1..Len(s) : s[i] = c

\* strings.HasPrefix(s, prefix)
HasPrefix(s, prefix) ==
    Len(s) >= Len(prefix) /\ SubSeq(s, 1, Len(prefix)) = prefix

\* strings.HasSuffix(s, suffix)
HasSuffix(s, suffix) ==
    Len(s) >= Len(suffix) /\ SubSeq(s, Len(s) - Len(suffix) + 1, Len(s)) = suffix

\* the offsets (from 0) at which sub occurs in s
Occurrences(s, sub) ==
    {i \in 0..(Len(s) - Len(sub)) : SubSeq(s, i + 1, i + Len(sub)) = sub}

\* strings.LastIndex: the offset of the last occurrence
IndexOfLast(s, sub) ==
    LET occ == Occurrences(s, sub)
    IN  IF occ = {} THEN -1 ELSE CHOOSE i \in occ : \A j \in occ : j <= i

\* strings.Index(s, sub): the offset of the first occurrence, -1 if none
Index(s, sub) ==
    LET occ == Occurrences(s, sub)
    IN  IF occ = {} THEN -1 ELSE CHOOSE i \in occ : \A j \in occ : i <= j

RECURSIVE SplitAcc(_, _, _)
SplitAcc(s, i, cur) ==
    IF i > Len(s) THEN <<cur>>
    ELSE IF s[i] = STAR THEN <<cur>> \o SplitAcc(s, i + 1, <<>>)
    ELSE SplitAcc(s, i + 1, Append(cur, s[i]))

\* strings.Split(s, "*")
Split(s) == SplitAcc(s, 1, <<>>)

\* ------------------------------------------------------------ matchPattern

\* a frame of matchPattern: where the call stands, its locals, its result
Return(b) == [pc |-> "done", parts |-> <<>>, n |-> 1, idx |-> 0, ret |-> b]

EntryFrame == [pc |-> "entry", parts |-> <<>>, n |-> 1, idx |-> 0, ret |-> FALSE]

\* the branches swapped: a leading "*" treated as a prefix match
SingleStarSwapped(parts, v) ==
    IF parts[1] = <<>> THEN [hit |-> TRUE, ret |-> HasPrefix(v, parts[2])]
    ELSE IF parts[2] = <<>> THEN [hit |-> TRUE, ret |-> HasSuffix(v, parts[1])]
    ELSE [hit |-> FALSE, ret |-> FALSE]

\* the body of `if len(parts) == 2`: whether it returns, and what
SingleStar(parts, v) ==
    IF parts[1] = <<>> THEN [hit |-> TRUE, ret |-> HasSuffix(v, parts[2])]
    ELSE IF parts[2] = <<>> THEN [hit |-> TRUE, ret |-> HasPrefix(v, parts[1])]
    ELSE [hit |-> FALSE, ret |-> FALSE]

\* matchPattern from its entry to the first loop test
mpEntry(p, v) ==
    IF p = <<STAR>> THEN Return(TRUE)
    ELSE IF ~Contains(p, STAR) THEN Return(p = v)
    ELSE LET parts == Split(p)
             one == IF Len(parts) = 2 THEN SingleStar(parts, v)
                    ELSE [hit |-> FALSE, ret |-> FALSE]
         IN  IF one.hit THEN Return(one.ret)
             ELSE [pc |-> "loop", parts |-> parts, n |-> 1, idx |-> 0, ret |-> FALSE]

\* the cursor moved one character too far
AdvanceOffByOne(idx, i, part) == idx + i + Len(part) + 1

\* the cursor left where the part was found: later parts may overlap it
AdvanceNoLen(idx, i, part) == idx + i

\* idx += i + len(part)
Advance(idx, i, part) == idx + i + Len(part)

\* the last occurrence taken instead of the first
FindPartLast(s, part) == IndexOfLast(s, part)

\* i := strings.Index(value[idx:], part), given value[idx:]
FindPart(s, part) == Index(s, part)

\* one pass of `for _, part := range parts`, or the return after the loop;
\* slicing value[idx:] with idx > len(value) panics
mpStep(f, v) ==
    IF f.n > Len(f.parts) THEN [f EXCEPT !.pc = "done", !.ret = TRUE]
    ELSE LET part == f.parts[f.n]
         IN  IF part = <<>> THEN [f EXCEPT !.n = @ + 1]
             ELSE IF f.idx < 0 \/ f.idx > Len(v) THEN [f EXCEPT !.pc = "panic"]
             ELSE LET i == FindPart(Slice(v, f.idx), part)
                  IN  IF i < 0 THEN [f EXCEPT !.pc = "done", !.ret = FALSE]
                      ELSE [f EXCEPT !.idx = Advance(f.idx, i, part), !.n = @ + 1]

RECURSIVE mpRun(_, _)
mpRun(f, v) == IF f.pc = "loop" THEN mpRun(mpStep(f, v), v) ELSE f

\* matchPattern(pattern, value) as a function of its arguments
matchPattern(p, v) == mpRun(mpEntry(p, v), v).ret

\* ----------------------------------------------------------- matchResource

\* the kinds pattern-matched instead of compared
KindGateByPattern(g, resources) ==
    \E k \in 1..Len(resources) : matchPattern(resources[k], g.Kind)

\* the loop over cr.Resources
KindGate(g, resources) ==
    \E k \in 1..Len(resources) :
        resources[k] = <<STAR>> \/ resources[k] = g.Kind

\* the version appended whatever the entry
TargetAlwaysGroupVersion(g, apiGroup) == g.Group \o <<SLASH>> \o g.Version

\* "Decide matching target"
Target(g, apiGroup) ==
    IF Contains(apiGroup, SLASH) THEN g.Group \o <<SLASH>> \o g.Version
    ELSE g.Group

RECURSIVE GroupLoop(_, _, _)
GroupLoop(g, apiGroups, k) ==
    IF k > Len(apiGroups) THEN FALSE
    ELSE IF apiGroups[k] = <<STAR>> THEN TRUE
    ELSE IF matchPattern(apiGroups[k], Target(g, apiGroups[k])) THEN TRUE
    ELSE GroupLoop(g, apiGroups, k + 1)

\* an absent group list taken for a wildcard
GroupGateEmptyIsAny(g, apiGroups) ==
    apiGroups = <<>> \/ GroupLoop(g, apiGroups, 1)

\* the loop over cr.APIGroups and the final `return false`
GroupGate(g, apiGroups) == GroupLoop(g, apiGroups, 1)

matchResource(g, rule) ==
    IF ~KindGate(g, rule.Resources) THEN FALSE
    ELSE GroupGate(g, rule.APIGroups)

\* ---------------------------------------------- GetClusterScopeRequirements

\* a Go slice: nil or not, and its elements
NilSlice == [isNil |-> TRUE, elems |-> <<>>]

\* []T{}: empty and not nil
EmptySlice == [isNil |-> FALSE, elems |-> <<>>]

\* the elements already present left out
GoAppendUnique(s, xs) ==
    LET fresh == SelectSeq(xs, LAMBDA x : \A k \in 1..Len(s.elems) : s.elems[k] # x)
    IN  IF Len(fresh) = 0 THEN s
        ELSE [isNil |-> FALSE, elems |-> s.elems \o fresh]

\* append(s, xs...): appending nothing returns s itself, nil included
GoAppend(s, xs) ==
    IF Len(xs) = 0 THEN s
    ELSE [isNil |-> FALSE, elems |-> s.elems \o xs]

\* labels.Nothing() and an internalSelector holding requirements
NothingSelector == [selectable |-> FALSE, reqs |-> <<>>]
InternalSelector(reqs) == [selectable |-> TRUE, reqs |-> reqs]

\* metav1.LabelSelectorAsSelector(cr.Selector): an error for a malformed
\* selector, labels.Nothing() for a nil one, else the selector's requirements
LabelSelectorAsSelector(ps) ==
    IF ps.kind = "malformed" THEN [err |-> TRUE, selector |-> NothingSelector]
    ELSE IF ps.kind = "nil" THEN [err |-> FALSE, selector |-> NothingSelector]
    ELSE [err |-> FALSE, selector |-> InternalSelector(ps.reqs)]

\* selector.Requirements()
Requirements(selector) == [reqs |-> selector.reqs, selectable |-> selector.selectable]

\* the selector converted before the operations are appended
RuleStepSelectorFirst(acc, g, rule) ==
    IF ~matchResource(g, rule) THEN acc
    ELSE LET conv == LabelSelectorAsSelector(rule.Selector)
         IN  IF conv.err THEN acc
             ELSE LET r == Requirements(conv.selector)
                  IN  IF ~r.selectable THEN acc
                      ELSE [operations |-> GoAppend(acc.operations, rule.Operations),
                            requirements |-> GoAppend(acc.requirements, r.reqs)]

\* the rule's match not tested
RuleStepNoGate(acc, g, rule) ==
    LET ops == GoAppend(acc.operations, rule.Operations)
        conv == LabelSelectorAsSelector(rule.Selector)
    IN  IF conv.err THEN [acc EXCEPT !.operations = ops]
        ELSE LET r == Requirements(conv.selector)
             IN  IF ~r.selectable THEN [acc EXCEPT !.operations = ops]
                 ELSE [operations |-> ops,
                       requirements |-> GoAppend(acc.requirements, r.reqs)]

\* the body of the inner loop, for one rule
RuleStep(acc, g, rule) ==
    IF ~matchResource(g, rule) THEN acc
    ELSE LET ops == GoAppend(acc.operations, rule.Operations)
             conv == LabelSelectorAsSelector(rule.Selector)
         IN  IF conv.err THEN [acc EXCEPT !.operations = ops]
             ELSE LET r == Requirements(conv.selector)
                  IN  IF ~r.selectable THEN [acc EXCEPT !.operations = ops]
                      ELSE [operations |-> ops,
                            requirements |-> GoAppend(acc.requirements, r.reqs)]

\* for _, cr := range pt.ClusterResources
RECURSIVE RulesLoop(_, _, _, _)
RulesLoop(acc, g, rules, k) ==
    IF k > Len(rules) THEN acc
    ELSE RulesLoop(RuleStep(acc, g, rules[k]), g, rules, k + 1)

\* for _, pt := range proxyTenants
RECURSIVE TenantsLoop(_, _, _, _)
TenantsLoop(acc, g, tenants, k) ==
    IF k > Len(tenants) THEN acc
    ELSE TenantsLoop(RulesLoop(acc, g, tenants[k].ClusterResources, 1), g, tenants, k + 1)

\* the call's results: the named results are nil until the body assigns them
NotCalled == [done |-> FALSE, operations |-> NilSlice, requirements |-> NilSlice]

GetClusterScopeRequirements(g, tenants) ==
    LET acc == TenantsLoop([operations |-> EmptySlice, requirements |-> EmptySlice],
                           g, tenants, 1)
    IN  [done |-> TRUE, operations |-> acc.operations, requirements |-> acc.requirements]

\* ------------------------------------------------------------------ inputs

Job == <<"J", "o", "b">>
LowerJob == <<"j", "o", "b">>
JoStar == <<"J", "o", STAR>>
Pod == <<"P", "o", "d">>

PatternChars == {"a", "b", STAR}
ValueChars == {"a", "b"}
Patterns == SeqsUpTo(PatternChars, MaxPatLen)
Values == SeqsUpTo(ValueChars, MaxValLen)

\* what the rules of the resource matcher are drawn from
KindEntries == {<<STAR>>, Job, JoStar}
GroupEntries == {<<>>, <<STAR>>, <<"a">>, <<"a", SLASH, "1">>, <<STAR, SLASH, "1">>,
                 <<"a", STAR>>, <<STAR, "1">>}
Coordinates == [Group : {<<>>, <<"a">>}, Version : {<<"1">>, <<"2">>}, Kind : {Job, LowerJob}]

NilSelector == [kind |-> "nil", reqs |-> <<>>]
MalformedSelector == [kind |-> "malformed", reqs |-> <<>>]
ValidSelector(reqs) == [kind |-> "valid", reqs |-> reqs]

NoRule == [Resources |-> <<>>, APIGroups |-> <<>>, Operations |-> <<>>, Selector |-> NilSelector]
ResourceRules ==
    {[NoRule EXCEPT !.Resources = rs, !.APIGroups = gs] :
        rs \in SeqsUpTo(KindEntries, MaxKinds), gs \in SeqsUpTo(GroupEntries, MaxGroups)}

\* what the tenants of the aggregation are made of
RuleAny == [Resources |-> <<<<STAR>>>>, APIGroups |-> <<<<STAR>>>>,
            Operations |-> <<"List">>, Selector |-> ValidSelector(<<"app=foo">>)]
RuleJobs == [Resources |-> <<Job>>, APIGroups |-> <<<<"a", SLASH, STAR>>>>,
             Operations |-> <<"Watch">>, Selector |-> MalformedSelector]
RuleCore == [Resources |-> <<Pod, <<STAR>>>>, APIGroups |-> <<<<>>>>,
             Operations |-> <<"List", "Get">>, Selector |-> NilSelector]
AggRules == {RuleAny, RuleJobs, RuleCore}
AggCoordinates == {[Group |-> <<"a">>, Version |-> <<"1">>, Kind |-> Job],
                   [Group |-> <<>>, Version |-> <<"1">>, Kind |-> Pod]}
Tenants == {[ClusterResources |-> rules] : rules \in SeqsUpTo(AggRules, MaxRules)}
TenantLists == SeqsUpTo(Tenants, MaxTenants)

\* ---------------------------------------------------------- specifications

\* matchResource not yet called, and returned with b
NotMatched == [done |-> FALSE, ret |-> FALSE]
Matched(b) == [done |-> TRUE, ret |-> b]
NoGVK == [Group |-> <<>>, Version |-> <<>>, Kind |-> <<>>]

IdlePattern == pattern = <<>> /\ value = <<>> /\ frame = Return(TRUE)
IdleResource == cr = NoRule /\ matched = NotMatched
IdleAggregate == proxyTenants = <<>> /\ out = NotCalled

\* one call matchPattern(pattern, value)
InitPattern ==
    /\ pattern \in Patterns
    /\ value \in Values
    /\ frame = EntryFrame
    /\ gvk = NoGVK
    /\ IdleResource
    /\ IdleAggregate

MatchPatternEntry ==
    /\ frame.pc = "entry"
    /\ frame' = mpEntry(pattern, value)
    /\ UNCHANGED <<pattern, value, gvk, cr, matched, proxyTenants, out>>

ScanPart ==
    /\ frame.pc = "loop"
    /\ frame.n <= Len(frame.parts)
    /\ frame' = mpStep(frame, value)
    /\ UNCHANGED <<pattern, value, gvk, cr, matched, proxyTenants, out>>

ScanEnd ==
    /\ frame.pc = "loop"
    /\ frame.n > Len(frame.parts)
    /\ frame' = mpStep(frame, value)
    /\ UNCHANGED <<pattern, value, gvk, cr, matched, proxyTenants, out>>

NextPattern == MatchPatternEntry \/ ScanPart \/ ScanEnd

SpecPattern == InitPattern /\ [][NextPattern]_vars

\* one call matchResource(gvk, cr)
InitResource ==
    /\ gvk \in Coordinates
    /\ cr \in ResourceRules
    /\ matched = NotMatched
    /\ IdlePattern
    /\ IdleAggregate

MatchResource ==
    /\ ~matched.done
    /\ matched' = Matched(matchResource(gvk, cr))
    /\ UNCHANGED <<pattern, value, frame, gvk, cr, proxyTenants, out>>

NextResource == MatchResource

SpecResource == InitResource /\ [][NextResource]_vars

\* one call GetClusterScopeRequirements(gvk, proxyTenants)
Init ==
    /\ gvk \in AggCoordinates
    /\ proxyTenants \in TenantLists
    /\ out = NotCalled
    /\ IdlePattern
    /\ IdleResource

Aggregate ==
    /\ ~out.done
    /\ out' = GetClusterScopeRequirements(gvk, proxyTenants)
    /\ UNCHANGED <<pattern, value, frame, gvk, cr, matched, proxyTenants>>

Next == Aggregate

Spec == Init /\ [][Next]_vars

\* a call of matchPattern runs to its end: the code is sequential
SpecPatternFair == SpecPattern /\ WF_vars(NextPattern)

\* --------------------------------------------- properties of matchPattern

NoStar(s) == \A i \in 1..Len(s) : s[i] # STAR
StarCount(s) == Cardinality({i \in 1..Len(s) : s[i] = STAR})

\* v starts with l, v ends with l: character by character
StartsWith(v, l) == Len(v) >= Len(l) /\ \A i \in 1..Len(l) : v[i] = l[i]
EndsWith(v, l) == Len(v) >= Len(l) /\ \A i \in 1..Len(l) : v[Len(v) - Len(l) + i] = l[i]

Returned == frame.pc \notin {"entry", "loop"}

\* L* with L a non-empty literal, and *L
IsPrefixPattern(p) == Len(p) >= 2 /\ p[Len(p)] = STAR /\ NoStar(SubSeq(p, 1, Len(p) - 1))
IsSuffixPattern(p) == Len(p) >= 2 /\ p[1] = STAR /\ NoStar(SubSeq(p, 2, Len(p)))

\* C4: for a non-empty literal L without "*", matchPattern(L*, v) is
\* "v starts with L" and matchPattern(*L, v) is "v ends with L".
C4_PrefixSuffix ==
    Returned =>
        /\ IsPrefixPattern(pattern) =>
              /\ frame.pc = "done"
              /\ frame.ret = StartsWith(value, SubSeq(pattern, 1, Len(pattern) - 1))
        /\ IsSuffixPattern(pattern) =>
              /\ frame.pc = "done"
              /\ frame.ret = EndsWith(value, SubSeq(pattern, 2, Len(pattern)))

\* a prefix pattern has matched a value longer than its literal
C4_Witness ==
    /\ frame.pc = "done"
    /\ IsPrefixPattern(pattern)
    /\ Len(value) > Len(pattern) - 1
    /\ frame.ret

\* the textbook matcher: "*" stands for any substring, the empty one
\* included, and the whole value is to be consumed
RECURSIVE GlobFrom(_, _, _, _)
GlobFrom(p, i, v, j) ==
    IF i > Len(p) THEN j > Len(v)
    ELSE IF p[i] = STAR THEN \E k \in j..(Len(v) + 1) : GlobFrom(p, i + 1, v, k)
    ELSE j <= Len(v) /\ v[j] = p[i] /\ GlobFrom(p, i + 1, v, j + 1)

Glob(p, v) == GlobFrom(p, 1, v, 1)

\* a single "*" between two non-empty literals, or two or more "*"
ReachesScan(p) ==
    \/ StarCount(p) >= 2
    \/ StarCount(p) = 1 /\ p[1] # STAR /\ p[Len(p)] # STAR

PatAStarAA == <<"a", STAR, "a", "a">>

\* C8, as stated: matchPattern disagrees with the textbook backtracking
\* glob matcher on pattern a*aa against value aaa.
C8_DisagreesOnAStarAA ==
    (frame.pc = "done" /\ pattern = PatAStarAA /\ value = <<"a", "a", "a">>)
        => frame.ret # Glob(pattern, value)

\* C8, amended: on a*aa against aaa matchPattern and the textbook glob
\* matcher agree (both match); matchPattern accepts whatever the glob matcher
\* accepts, and the two differ only on patterns that reach the general scan,
\* where matchPattern accepts a value the glob matcher rejects, as a*aa
\* against aaab.
C8_AgreesOnAStarAA ==
    Returned =>
        /\ frame.pc = "done"
        /\ (pattern = PatAStarAA /\ value = <<"a", "a", "a">>) =>
              (frame.ret /\ Glob(pattern, value))
        /\ Glob(pattern, value) => frame.ret
        /\ frame.ret # Glob(pattern, value) => ReachesScan(pattern)
        /\ (pattern = PatAStarAA /\ value = <<"a", "a", "a", "b">>) =>
              (frame.ret /\ ~Glob(pattern, value))

\* the call on a*aa and aaa has returned true
C8_Witness ==
    /\ frame.pc = "done"
    /\ pattern = PatAStarAA
    /\ value = <<"a", "a", "a">>
    /\ frame.ret

\* C9: matchPattern never panics and always terminates: while the scan loop
\* runs, 0 <= idx <= len(value) and at most one pass per part has been made,
\* and every call returns.
C9_NoPanicTerminates ==
    /\ [](/\ frame.pc # "panic"
          /\ frame.pc = "loop" =>
                /\ 0 <= frame.idx /\ frame.idx <= Len(value)
                /\ frame.n - 1 <= Len(frame.parts)
                /\ Len(frame.parts) = StarCount(pattern) + 1)
    /\ <>(frame.pc = "done")

\* the loop is about to slice value[idx:] with idx = len(value)
C9_Witness ==
    /\ frame.pc = "loop"
    /\ frame.n <= Len(frame.parts)
    /\ frame.parts[frame.n] # <<>>
    /\ frame.idx = Len(value)
    /\ Len(value) > 0

\* the non-empty literals of a pattern, in order
Literals(p) == SelectSeq(Split(p), LAMBDA x : x # <<>>)

\* the literals lits[k..] occur in v at or after offset from, in order and
\* without overlapping: every placement is tried
RECURSIVE Placeable(_, _, _, _)
Placeable(lits, k, v, from) ==
    \/ k > Len(lits)
    \/ \E pos \in from..(Len(v) - Len(lits[k])) :
          /\ SubSeq(v, pos + 1, pos + Len(lits[k])) = lits[k]
          /\ Placeable(lits, k + 1, v, pos + Len(lits[k]))

\* C10: for a pattern that reaches the general scan, matchPattern is true
\* iff the pattern's non-empty literals occur in the value in order, without
\* overlapping, anchored to neither end; a*b matches baba and **a matches ab.
C10_ScanIsPlacement ==
    (Returned /\ ReachesScan(pattern)) =>
        /\ frame.pc = "done"
        /\ frame.ret = Placeable(Literals(pattern), 1, value, 0)
        /\ (pattern = <<"a", STAR, "b">> /\ value = <<"b", "a", "b", "a">>) => frame.ret
        /\ (pattern = <<STAR, STAR, "a">> /\ value = <<"a", "b">>) => frame.ret

\* a single "*" between literals has matched a value that neither starts
\* with the first literal nor ends with the last
C10_Witness ==
    /\ frame.pc = "done"
    /\ frame.ret
    /\ pattern = <<"a", STAR, "b">>
    /\ value = <<"b", "a", "b", "a">>

\* -------------------------------------------- properties of matchResource

HasSlash(e) == \E i \in 1..Len(e) : e[i] = SLASH

\* the rule names the coordinate's kind, or "*", as one of its kinds
KindListed(g, rule) ==
    \E k \in 1..Len(rule.Resources) :
        rule.Resources[k] = <<STAR>> \/ rule.Resources[k] = g.Kind

NoStarEntry(rule) == \A k \in 1..Len(rule.APIGroups) : rule.APIGroups[k] # <<STAR>>

\* what an entry is compared against
TargetOf(g, e) == IF HasSlash(e) THEN g.Group \o <<SLASH>> \o g.Version ELSE g.Group

\* C1: when the kind gate passes and no entry of groupPatterns is the
\* literal "*", matchResource is true iff some entry e satisfies
\* matchPattern(e, target(e)), target(e) being group/version when e holds a
\* "/" and the group alone otherwise; the entry "" alone matches exactly the
\* coordinates of the empty group.
C1_GroupEntries ==
    (matched.done /\ KindListed(gvk, cr) /\ NoStarEntry(cr)) =>
        /\ matched.ret =
              (\E k \in 1..Len(cr.APIGroups) :
                  matchPattern(cr.APIGroups[k], TargetOf(gvk, cr.APIGroups[k])))
        /\ cr.APIGroups = <<<<>>>> => (matched.ret = (gvk.Group = <<>>))
        /\ (\A k \in 1..Len(cr.APIGroups) : ~HasSlash(cr.APIGroups[k])) =>
              \A ver \in {<<"1">>, <<"2">>} :
                  matched.ret = matchResource([gvk EXCEPT !.Version = ver], cr)

\* a rule whose first entry has no "/" and does not match, and whose second
\* entry has one and matches
C1_Witness ==
    /\ matched.done
    /\ matched.ret
    /\ KindListed(gvk, cr)
    /\ NoStarEntry(cr)
    /\ Len(cr.APIGroups) = 2
    /\ ~HasSlash(cr.APIGroups[1])
    /\ HasSlash(cr.APIGroups[2])
    /\ Contains(cr.APIGroups[1], STAR)

\* C2: matchResource is false whenever the rule's kinds are empty, and
\* whenever its groupPatterns are empty, a "*" kind notwithstanding.
C2_EmptyListsNeverMatch ==
    (matched.done /\ (cr.Resources = <<>> \/ cr.APIGroups = <<>>)) => ~matched.ret

\* a rule of kind "*" without groupPatterns has been evaluated
C2_Witness ==
    /\ matched.done
    /\ cr.APIGroups = <<>>
    /\ cr.Resources = <<<<STAR>>>>
    /\ ~matched.ret

\* C3: whenever matchResource is true, the rule's kinds hold the literal "*"
\* or an element equal to the coordinate's kind: a kind such as Jo* or one
\* differing in case lets nothing through.
C3_KindExact ==
    (matched.done /\ matched.ret) =>
        \E k \in 1..Len(cr.Resources) :
            cr.Resources[k] = <<STAR>> \/ cr.Resources[k] = gvk.Kind

\* the kinds Jo* against the kind Job, every group allowed: no match
C3_Witness ==
    /\ matched.done
    /\ ~matched.ret
    /\ cr.Resources = <<JoStar>>
    /\ gvk.Kind = Job
    /\ cr.APIGroups = <<<<STAR>>>>

\* ------------------------------ properties of GetClusterScopeRequirements

\* the rules of the tenants, tenants outer and rules inner
RECURSIVE RulesOf(_)
RulesOf(tenants) ==
    IF tenants = <<>> THEN <<>>
    ELSE Head(tenants).ClusterResources \o RulesOf(Tail(tenants))

Convertible(rule) == ~LabelSelectorAsSelector(rule.Selector).err
Selectable(rule) ==
    Requirements(LabelSelectorAsSelector(rule.Selector).selector).selectable

\* the operations of the matching rules, in order
RECURSIVE OperationsOf(_, _)
OperationsOf(g, rules) ==
    IF rules = <<>> THEN <<>>
    ELSE (IF matchResource(g, Head(rules)) THEN Head(rules).Operations ELSE <<>>)
         \o OperationsOf(g, Tail(rules))

\* the requirements of the matching rules whose selector converts and is
\* selectable, in order
RECURSIVE RequirementsOf(_, _)
RequirementsOf(g, rules) ==
    IF rules = <<>> THEN <<>>
    ELSE (IF matchResource(g, Head(rules)) /\ Convertible(Head(rules))
             /\ Selectable(Head(rules))
          THEN Head(rules).Selector.reqs ELSE <<>>)
         \o RequirementsOf(g, Tail(rules))

\* C5: for every split of the tenant list into A ++ B, the operations
\* returned are those returned for A followed by those returned for B, and so
\* are the requirements.
C5_Homomorphism ==
    out.done =>
        \A k \in 0..Len(proxyTenants) :
            LET a == GetClusterScopeRequirements(gvk, SubSeq(proxyTenants, 1, k))
                b == GetClusterScopeRequirements(
                         gvk, SubSeq(proxyTenants, k + 1, Len(proxyTenants)))
            IN  /\ out.operations.elems = a.operations.elems \o b.operations.elems
                /\ out.requirements.elems = a.requirements.elems \o b.requirements.elems

\* two tenants, each of which contributes operations on its own
C5_Witness ==
    /\ out.done
    /\ Len(proxyTenants) = 2
    /\ OperationsOf(gvk, proxyTenants[1].ClusterResources) # <<>>
    /\ OperationsOf(gvk, proxyTenants[2].ClusterResources) # <<>>
    /\ out.requirements.elems # <<>>

\* some matching rule whose selector fails conversion or is not selectable
HasSkippedSelector(g, rules) ==
    \E k \in 1..Len(rules) :
        matchResource(g, rules[k]) /\ ~(Convertible(rules[k]) /\ Selectable(rules[k]))

\* C6: a matching rule whose selector fails conversion or is not selectable
\* contributes its operations and no requirement, and the traversal goes on:
\* the other rules contribute as they would without it; tenant A [List] with
\* app=foo and tenant B [Watch] with a malformed selector yield [List, Watch]
\* and [app=foo].
C6_SkippedSelector ==
    (out.done /\ HasSkippedSelector(gvk, RulesOf(proxyTenants))) =>
        /\ out.operations.elems = OperationsOf(gvk, RulesOf(proxyTenants))
        /\ out.requirements.elems = RequirementsOf(gvk, RulesOf(proxyTenants))
        /\ (/\ proxyTenants = <<[ClusterResources |-> <<RuleAny>>],
                                [ClusterResources |-> <<RuleJobs>>]>>
            /\ gvk.Kind = Job)
              => /\ out.operations.elems = <<"List", "Watch">>
                 /\ out.requirements.elems = <<"app=foo">>

\* a matching rule with a malformed selector, then a later rule of the same
\* tenant that has contributed a requirement
C6_Witness ==
    /\ out.done
    /\ Len(proxyTenants) >= 1
    /\ proxyTenants[1].ClusterResources = <<RuleJobs, RuleAny>>
    /\ gvk.Kind = Job
    /\ out.requirements.elems # <<>>

\* C7: the operations returned are the concatenation, in traversal order, of
\* the operations of the rules for which matchResource is true, duplicates
\* kept and nothing from the other rules; when no rule matches both results
\* are empty, and neither result is ever nil.
C7_OperationsInOrder ==
    out.done =>
        /\ out.operations.elems = OperationsOf(gvk, RulesOf(proxyTenants))
        /\ ~out.operations.isNil
        /\ ~out.requirements.isNil
        /\ (\A k \in 1..Len(RulesOf(proxyTenants)) :
                ~matchResource(gvk, RulesOf(proxyTenants)[k]))
              => (out.operations.elems = <<>> /\ out.requirements.elems = <<>>)

\* an operation returned twice, beside a rule that does not match
C7_Witness ==
    /\ out.done
    /\ \E i, j \in 1..Len(out.operations.elems) :
          i # j /\ out.operations.elems[i] = out.operations.elems[j]
    /\ \E k \in 1..Len(RulesOf(proxyTenants)) :
          ~matchResource(gvk, RulesOf(proxyTenants)[k])

====
